---- MODULE Spec2Model ----
(***************************************************************************)
(* Elder-companion memory service: the hybrid retrieval, the MMR+recency  *)
(* reranker, the short-term insertion writer, the offline LangGraph DAG,  *)
(* the online tool-calling graph and the HTTP facade that shares one      *)
(* SessionContext between all requests.                                   *)
(*                                                                         *)
(* Python dicts are functions with a string domain; a key that is absent  *)
(* from the dict is absent from the DOMAIN.  Scores are integers: the     *)
(* retrieval scores and the cross-encoder score are in 1/100, the recency *)
(* score in 1/10000 (round(score, 4)), the MMR score in 1/1000000.        *)
(* Timestamps are kept as the record's age in whole days at request time. *)
(***************************************************************************)
EXTENDS Integers, Sequences, FiniteSets, TLC

VARIABLES
    stm,        \* rows of short_term_memory
    ltm,        \* rows of long_term_memory
    hcm,        \* rows of healthcare_records
    session,    \* the SessionContext shared by every request of the facade
    inv,        \* the online-graph invocations in flight, by request
    off,        \* the offline-graph run
    rr,         \* a candidate list and the reranker applications on it
    probe,      \* a direct call of one retrieval-core function and its outcome
    req         \* one POST /invoke request on its way through the facade

vars == <<stm, ltm, hcm, session, inv, off, rr, probe, req>>

-----------------------------------------------------------------------------
(* Python dict and list helpers *)

Put(d, k, v) == [f \in (DOMAIN d) \cup {k} |-> IF f = k THEN v ELSE d[f]]

Pop(d, k) == [f \in (DOMAIN d) \ {k} |-> d[f]]

Has(d, k) == k \in DOMAIN d

RECURSIVE Concat(_)
Concat(ss) == IF ss = <<>> THEN <<>> ELSE Head(ss) \o Concat(Tail(ss))

Max(S) == CHOOSE m \in S : \A n \in S : n <= m

Min(S) == CHOOSE m \in S : \A n \in S : m <= n

Abs(n) == IF n < 0 THEN -n ELSE n

-----------------------------------------------------------------------------
(* Texts are sequences of characters; a letter names what the text is     *)
(* about, and the embedding model, the lexical index and the cross-encoder *)
(* (external models) are tables over the letters.                          *)

Letters == <<"x", "y", "z">>

LetterIndex(c) == CHOOSE i \in 1..Len(Letters) : Letters[i] = c

RECURSIVE LStrip(_)
LStrip(t) == IF t # <<>> /\ Head(t) = " " THEN LStrip(Tail(t)) ELSE t

RECURSIVE RStrip(_)
RStrip(t) ==
    IF t # <<>> /\ t[Len(t)] = " " THEN RStrip(SubSeq(t, 1, Len(t) - 1)) ELSE t

\* str.strip()
Strip(t) == RStrip(LStrip(t))

\* not txt.strip()
IsBlank(t) == Strip(t) = <<>>

Topic(t) == LetterIndex(Strip(t)[1])

\* SentenceTransformer.encode(txt, normalize_embeddings=True)
Encode(t) == Topic(t)

\* Embedder.embed: ValueError on an empty or blank string
embed(t) ==
    IF IsBlank(t) THEN [ok |-> FALSE, error |-> "ValueError"]
    ELSE [ok |-> TRUE, value |-> Encode(t)]

\* str(embedding), the text a row's embedding column holds
EmbStr(e) == <<"[", e, "]">>

\* cosine similarity of two unit vectors, in 1/100
Cosine(a, b) ==
    IF a = b THEN 100 ELSE IF Abs(a - b) = 1 THEN 50 ELSE 0

\* paradedb.score(id) of a row text for a query; 0 when neither the exact
\* match nor the fuzzy match (distance => 2) hits
Bm25Raw(query, text) ==
    IF IsBlank(text) THEN 0
    ELSE IF Topic(query) = Topic(text) THEN 2
    ELSE IF Abs(Topic(query) - Topic(text)) = 1 THEN 1
    ELSE 0

\* CrossEmbedder.predict on one (query, text) pair
CrossScore(query, text) ==
    IF IsBlank(query) THEN 0
    ELSE IF Topic(query) = Topic(text) THEN 2
    ELSE IF Abs(Topic(query) - Topic(text)) = 1 THEN 1
    ELSE 0

-----------------------------------------------------------------------------
(* Recency scorer *)

TTL_DAYS == 14

HALF_LIFE_DAYS == 6

\* math.exp(-math.log(2) / half_life_days * days_diff) in 1/10000, on the
\* ages the model's rows have; a negative age is a timestamp later than now
_exponential_decay(days_diff, half_life_days) ==
    IF days_diff % half_life_days = 0
    THEN IF days_diff >= 0
         THEN 10000 \div (2 ^ (days_diff \div half_life_days))
         ELSE 10000 * (2 ^ ((0 - days_diff) \div half_life_days))
    ELSE CASE days_diff = -1 -> 11225
           [] days_diff = 1 -> 8909
           [] days_diff = 3 -> 7071
           [] days_diff = 13 -> 2227
           [] days_diff = 14 -> 1984
           [] days_diff = 15 -> 1768
           [] OTHER -> 0

_calculate_decay_score(age_days) ==
    IF age_days > TTL_DAYS THEN 0
    ELSE _exponential_decay(age_days, HALF_LIFE_DAYS)

\* content.get('last_updated') or content.get('created_at')
_get_content_datetime(content) ==
    IF Has(content, "last_updated") THEN [ok |-> TRUE, value |-> content["last_updated"]]
    ELSE IF Has(content, "created_at") THEN [ok |-> TRUE, value |-> content["created_at"]]
    ELSE [ok |-> FALSE, error |-> "ValueError"]

recency_of(content) ==
    LET t == _get_content_datetime(content)
    IN IF t.ok
       THEN Put(Put(content, "recency_score", _calculate_decay_score(t.value)),
                "timezone_used", "Asia/Singapore (UTC+8)")
       ELSE Put(Put(content, "recency_score", 0), "error", t.error)

\* adds recency_score to every dict of the list, in place
compute_recency_score(content_list) ==
    [i \in 1..Len(content_list) |-> recency_of(content_list[i])]

-----------------------------------------------------------------------------
(* Reranker: MMR with recency *)

alpha_MMR == 70

beta_recency == 10

top_k_MMR == 5

\* r.get("content") or r.get("value") or r.get("description")
TextKeys(r) ==
    SelectSeq(<<"content", "value", "description">>,
              LAMBDA k : Has(r, k) /\ r[k] # <<>>)

HasText(r) == TextKeys(r) # <<>> /\ ~IsBlank(r[TextKeys(r)[1]])

TextOf(r) == r[TextKeys(r)[1]]

\* [float(x) for x in emb_str.strip("[]").split(",")] on the popped value
ParseEmbedding(r) ==
    IF ~Has(r, "embedding") THEN [ok |-> FALSE, error |-> "AttributeError"]
    ELSE LET s == r["embedding"]
         IN IF s = <<>> THEN [ok |-> FALSE, error |-> "AttributeError"]
            ELSE IF Len(s) = 3 /\ s[1] = "[" /\ s[3] = "]"
                 THEN [ok |-> TRUE, value |-> s[2]]
                 ELSE [ok |-> FALSE, error |-> "ValueError"]

\* ce_scores: the raw cross-encoder scores normalised to [0, 1], in 1/100
NormalisedCE(raw) ==
    LET lo == Min({raw[i] : i \in 1..Len(raw)})
        hi == Max({raw[i] : i \in 1..Len(raw)})
    IN [i \in 1..Len(raw) |->
            IF hi # lo THEN ((raw[i] - lo) * 100) \div (hi - lo) ELSE 100]

\* max((cos_sim_matrix[idx][s] for s in selected_indices), default=0.0)
MaxSim(emb, idx, selected) ==
    IF selected = <<>> THEN 0
    ELSE Max({Cosine(emb[idx], emb[selected[j]]) : j \in 1..Len(selected)})

\* alpha_MMR * ce_score - (1 - alpha_MMR) * max_sim + beta_recency * recency
MmrScore(ce, rec, emb, idx, selected) ==
    alpha_MMR * ce[idx] * 100
    - (100 - alpha_MMR) * MaxSim(emb, idx, selected) * 100
    + beta_recency * rec[idx]

\* the inner for loop: the first index of remaining_indices whose score is
\* strictly greater than every score before it
BestIdx(ce, rec, emb, selected, remaining) ==
    LET score(p) == MmrScore(ce, rec, emb, remaining[p], selected)
        pos == CHOOSE p \in 1..Len(remaining) :
                   /\ \A q \in 1..Len(remaining) : score(q) <= score(p)
                   /\ \A q \in 1..(p - 1) : score(q) < score(p)
    IN remaining[pos]

RECURSIVE MmrSelect(_, _, _, _, _)
MmrSelect(ce, rec, emb, selected, remaining) ==
    IF Len(selected) >= top_k_MMR \/ remaining = <<>> THEN selected
    ELSE LET best == BestIdx(ce, rec, emb, selected, remaining)
         IN MmrSelect(ce, rec, emb, Append(selected, best),
                      SelectSeq(remaining, LAMBDA i : i # best))

\* The call's outcome: status, the chunks returned, and the caller's candidate
\* dicts as the call leaves them (they are modified in place).
rerank_with_mmr_and_recency(query, candidates) ==
    IF candidates = <<>>
    THEN [status |-> "ok", result |-> <<>>, candidates |-> candidates]
    ELSE
    LET n == Len(candidates)
        c1 == compute_recency_score(candidates)
        parsed == [i \in 1..n |-> ParseEmbedding(c1[i])]
        bad == {i \in 1..n : ~parsed[i].ok}
        firstBad == Min(bad)
        popped(upto) == [i \in 1..n |->
                            IF i <= upto THEN Pop(c1[i], "embedding") ELSE c1[i]]
    IN IF \E i \in 1..n : ~HasText(c1[i])
       THEN [status |-> "ValueError", result |-> <<>>, candidates |-> c1]
       ELSE IF bad # {}
       THEN [status |-> parsed[firstBad].error, result |-> <<>>,
             candidates |-> popped(firstBad)]
       ELSE
       LET c2 == popped(n)
           emb == [i \in 1..n |-> parsed[i].value]
           rec == [i \in 1..n |-> c2[i]["recency_score"]]
           ce == NormalisedCE([i \in 1..n |-> CrossScore(query, TextOf(c2[i]))])
           sel == MmrSelect(ce, rec, emb, <<>>, [i \in 1..n |-> i])
           rank(i) == CHOOSE k \in 1..Len(sel) : sel[k] = i
           scored(i) ==
               Put(Put(Put(c2[i], "cross_encoder_score", ce[i]),
                       "recency_score", rec[i]),
                   "mmr_score",
                   MmrScore(ce, rec, emb, i, SubSeq(sel, 1, rank(i) - 1)))
           c3 == [i \in 1..n |->
                     IF \E k \in 1..Len(sel) : sel[k] = i THEN scored(i) ELSE c2[i]]
       IN [status |-> "ok",
           result |-> [k \in 1..Len(sel) |-> c3[sel[k]]],
           candidates |-> c3]

-----------------------------------------------------------------------------
(* Bucket index: hybrid (dense + BM25) search of one table *)

top_k_retrieval == 5

sim_threshold == 30

alpha_retrieval == 50

\* positions of seq ordered by key descending; equal keys keep their order
\* (sorted(..., reverse=True) is stable)
RECURSIVE SortedPositions(_, _)
SortedPositions(key, left) ==
    IF left = {} THEN <<>>
    ELSE LET p == CHOOSE a \in left :
                      \A b \in left : key[b] < key[a] \/ (key[b] = key[a] /\ a <= b)
         IN <<p>> \o SortedPositions(key, left \ {p})

SortDesc(seq, key) ==
    LET order == SortedPositions(key, 1..Len(seq))
    IN [i \in 1..Len(seq) |-> seq[order[i]]]

Take(seq, k) == SubSeq(seq, 1, IF Len(seq) < k THEN Len(seq) ELSE k)

\* the rows of a table in id order (the order a query returns equal rows in)
RECURSIVE RowsById(_)
RowsById(rows) ==
    IF rows = {} THEN <<>>
    ELSE LET r == CHOOSE a \in rows : \A b \in rows : a.id <= b.id
         IN <<r>> \o RowsById(rows \ {r})

\* 1 - (embedding <=> :emb), NULL for a row without embedding
Similarity(row, emb) ==
    IF row.embedding = <<>> THEN -1 ELSE Cosine(row.embedding[2], emb)

\* sql_emb: the top_k nearest rows of the elderly, then the threshold
DensePath(rows, elderly_id, emb) ==
    LET mine == RowsById({r \in rows : r.elderly_id = elderly_id})
        sim == [i \in 1..Len(mine) |-> Similarity(mine[i], emb)]
        nearest == Take(SortDesc(mine, sim), top_k_retrieval)
    IN SelectSeq(nearest, LAMBDA r : Similarity(r, emb) >= sim_threshold)

\* a lexical path whose query has no elderly_id condition
LexicalPath_any_elderly(rows, elderly_id, score) ==
    LET mine == RowsById({r \in rows : score[r.id] > 0})
        key == [i \in 1..Len(mine) |-> score[mine[i].id]]
    IN Take(SortDesc(mine, key), top_k_retrieval)

\* sql_bm25: the top_k best matching rows of the elderly
LexicalPath(rows, elderly_id, score) ==
    LET mine == RowsById({r \in rows : r.elderly_id = elderly_id /\ score[r.id] > 0})
        key == [i \in 1..Len(mine) |-> score[mine[i].id]]
    IN Take(SortDesc(mine, key), top_k_retrieval)

\* max((float(r.bm25_score) for r in rows_bm25), default=1.0)
MaxBm25(rows_bm25, score) ==
    IF rows_bm25 = <<>> THEN 1
    ELSE Max({score[rows_bm25[i].id] : i \in 1..Len(rows_bm25)})

IdsOf(seq) == {seq[i].id : i \in 1..Len(seq)}

\* the ids of emb_results, then the ids only bm25_results has
MergedIds(rows_emb, rows_bm25) ==
    [i \in 1..Len(rows_emb) |-> rows_emb[i].id]
    \o SelectSeq([i \in 1..Len(rows_bm25) |-> rows_bm25[i].id],
                 LAMBDA id : id \notin IdsOf(rows_emb))

\* alpha_retrieval * bm25_score + (1 - alpha_retrieval) * emb_score
Hybrid(bm25_score, emb_score) ==
    (alpha_retrieval * bm25_score + (100 - alpha_retrieval) * emb_score) \div 100

\* a fusion that returns the whole sorted union
Fuse_uncut(rows, rows_emb, rows_bm25, score, emb, columns) ==
    LET ids == MergedIds(rows_emb, rows_bm25)
        row(id) == CHOOSE r \in rows : r.id = id
        max_bm25 == MaxBm25(rows_bm25, score)
        emb_score(id) == IF id \in IdsOf(rows_emb) THEN Similarity(row(id), emb) ELSE 0
        bm25_score(id) ==
            IF id \in IdsOf(rows_bm25) THEN (score[id] * 100) \div max_bm25 ELSE 0
        combined == [i \in 1..Len(ids) |->
            Put(Put(Put([k \in columns |-> row(ids[i])[k]],
                        "emb_score", emb_score(ids[i])),
                    "bm25_score", bm25_score(ids[i])),
                "hybrid_score", Hybrid(bm25_score(ids[i]), emb_score(ids[i])))]
        key == [i \in 1..Len(ids) |-> combined[i]["hybrid_score"]]
    IN SortDesc(combined, key)

\* Merge + hybrid, the sort by hybrid_score and the cut to top_k.
\* payload(row) is the dict of the row's columns the bucket returns.
Fuse(rows, rows_emb, rows_bm25, score, emb, columns) ==
    LET ids == MergedIds(rows_emb, rows_bm25)
        row(id) == CHOOSE r \in rows : r.id = id
        max_bm25 == MaxBm25(rows_bm25, score)
        emb_score(id) == IF id \in IdsOf(rows_emb) THEN Similarity(row(id), emb) ELSE 0
        bm25_score(id) ==
            IF id \in IdsOf(rows_bm25) THEN (score[id] * 100) \div max_bm25 ELSE 0
        combined == [i \in 1..Len(ids) |->
            Put(Put(Put([k \in columns |-> row(ids[i])[k]],
                        "emb_score", emb_score(ids[i])),
                    "bm25_score", bm25_score(ids[i])),
                "hybrid_score", Hybrid(bm25_score(ids[i]), emb_score(ids[i])))]
        key == [i \in 1..Len(ids) |-> combined[i]["hybrid_score"]]
    IN Take(SortDesc(combined, key), top_k_retrieval)

\* sql_bm25 of short_term_memory: paradedb.score(id) over content
Bm25Stm(rows, query) ==
    [id \in IdsOf(RowsById(rows)) |->
        Bm25Raw(query, (CHOOSE r \in rows : r.id = id).content)]

\* sql_bm25 of long_term_memory: paradedb.score(id) over key and value
Bm25Ltm(rows, query) ==
    [id \in IdsOf(RowsById(rows)) |->
        LET r == CHOOSE r \in rows : r.id = id
        IN Max({Bm25Raw(query, r.key), Bm25Raw(query, r.value)})]

\* sql_bm25 of healthcare_records: paradedb.score(id) over description
Bm25Hcm(rows, query) ==
    [id \in IdsOf(RowsById(rows)) |->
        Bm25Raw(query, (CHOOSE r \in rows : r.id = id).description)]

\* The three bucket searches.  The callers hand over the query embedding they
\* hold; a store error (fails) or an empty query ends in the except branch.
retrieve_hybrid_stm(rows, elderly_id, query, embedding, fails) ==
    IF fails \/ IsBlank(query) THEN <<>>
    ELSE LET score == Bm25Stm(rows, query)
         IN Fuse(rows, DensePath(rows, elderly_id, embedding),
                 LexicalPath(rows, elderly_id, score), score, embedding,
                 {"id", "content", "created_at", "embedding"})

retrieve_hybrid_ltm(rows, elderly_id, query, embedding, fails) ==
    IF fails \/ IsBlank(query) THEN <<>>
    ELSE LET score == Bm25Ltm(rows, query)
         IN Fuse(rows, DensePath(rows, elderly_id, embedding),
                 LexicalPath(rows, elderly_id, score), score, embedding,
                 {"id", "category", "key", "value", "last_updated", "embedding"})

retrieve_hybrid_hcm(rows, elderly_id, query, embedding, fails) ==
    IF fails \/ IsBlank(query) THEN <<>>
    ELSE LET score == Bm25Hcm(rows, query)
         IN Fuse(rows, DensePath(rows, elderly_id, embedding),
                 LexicalPath(rows, elderly_id, score), score, embedding,
                 {"id", "record_type", "description", "diagnosis_date",
                  "last_updated", "embedding"})

-----------------------------------------------------------------------------
(* Insertion writer *)

NoElderly == "None"

NextStmId(rows) == 1 + Cardinality(rows)

\* an insertion that stores the content as it was given
insert_short_term_unstripped(rows, content, elderly_id, embedding, fails) ==
    IF elderly_id = NoElderly
    THEN [raised |-> TRUE, returned |-> FALSE, success |-> FALSE, rows |-> rows,
          error |-> "ValueError", embedded |-> FALSE]
    ELSE IF IsBlank(content)
    THEN [raised |-> FALSE, returned |-> TRUE, success |-> FALSE, rows |-> rows,
          error |-> "content is required", embedded |-> FALSE]
    ELSE IF fails
    THEN [raised |-> FALSE, returned |-> TRUE, success |-> FALSE, rows |-> rows,
          error |-> "Database error", embedded |-> TRUE]
    ELSE [raised |-> FALSE, returned |-> FALSE, success |-> FALSE,
          error |-> "none", embedded |-> TRUE,
          rows |-> rows \cup {[id |-> NextStmId(rows),
                               elderly_id |-> elderly_id,
                               content |-> content,
                               embedding |-> EmbStr(embedding),
                               created_at |-> 0]}]

\* an insertion without the test of the content
insert_short_term_unchecked(rows, content, elderly_id, embedding, fails) ==
    IF elderly_id = NoElderly
    THEN [raised |-> TRUE, returned |-> FALSE, success |-> FALSE, rows |-> rows,
          error |-> "ValueError", embedded |-> FALSE]
    ELSE IF fails
    THEN [raised |-> FALSE, returned |-> TRUE, success |-> FALSE, rows |-> rows,
          error |-> "Database error", embedded |-> TRUE]
    ELSE [raised |-> FALSE, returned |-> FALSE, success |-> FALSE,
          error |-> "none", embedded |-> TRUE,
          rows |-> rows \cup {[id |-> NextStmId(rows),
                               elderly_id |-> elderly_id,
                               content |-> Strip(content),
                               embedding |-> EmbStr(embedding),
                               created_at |-> 0]}]

\* The call's outcome: raised, the value returned (returned = FALSE when the
\* function ends without a return statement, i.e. returns None), the error
\* raised or returned, whether embedder.embed was called, and the table.
insert_short_term(rows, content, elderly_id, embedding, fails) ==
    IF elderly_id = NoElderly
    THEN [raised |-> TRUE, returned |-> FALSE, success |-> FALSE, rows |-> rows,
          error |-> "ValueError", embedded |-> FALSE]
    ELSE IF IsBlank(content)
    THEN [raised |-> FALSE, returned |-> TRUE, success |-> FALSE, rows |-> rows,
          error |-> "content is required", embedded |-> FALSE]
    ELSE IF fails
    THEN [raised |-> FALSE, returned |-> TRUE, success |-> FALSE, rows |-> rows,
          error |-> "Database error", embedded |-> TRUE]
    ELSE [raised |-> FALSE, returned |-> FALSE, success |-> FALSE,
          error |-> "none", embedded |-> TRUE,
          rows |-> rows \cup {[id |-> NextStmId(rows),
                               elderly_id |-> elderly_id,
                               content |-> Strip(content),
                               embedding |-> EmbStr(embedding),
                               created_at |-> 0]}]

-----------------------------------------------------------------------------
(* The store and the requests *)

MaxTopics == 2

MaxStmRows == 3

ELDERLY_ID == "E1"

OtherElderly == "E2"

Buckets == {"healthcare", "long-term", "short-term"}

QaTypes == {"question", "statement"}

\* the utterances a request can carry: plain, with blanks around it, blank
Utterances == {<<"x">>, <<" ", "y", " ">>, <<" ">>}

STM0 ==
    {[id |-> 1, elderly_id |-> ELDERLY_ID, content |-> <<"x">>,
      embedding |-> EmbStr(Encode(<<"x">>)), created_at |-> 0],
     [id |-> 2, elderly_id |-> OtherElderly, content |-> <<"x">>,
      embedding |-> EmbStr(Encode(<<"x">>)), created_at |-> 0]}

LTM0 ==
    {[id |-> 101, elderly_id |-> ELDERLY_ID, category |-> "personal",
      key |-> <<"z">>, value |-> <<"y">>,
      embedding |-> EmbStr(Encode(<<"y">>)), last_updated |-> 6],
     [id |-> 102, elderly_id |-> ELDERLY_ID, category |-> "family",
      key |-> <<"x">>, value |-> <<"x">>,
      embedding |-> EmbStr(Encode(<<"x">>)), last_updated |-> 15]}

HCM0 ==
    {[id |-> 201, elderly_id |-> ELDERLY_ID, record_type |-> "medication",
      description |-> <<"x">>, diagnosis_date |-> 15,
      embedding |-> EmbStr(Encode(<<"x">>)), last_updated |-> 0],
     [id |-> 202, elderly_id |-> ELDERLY_ID, record_type |-> "condition",
      description |-> <<"y">>, diagnosis_date |-> 15,
      embedding |-> EmbStr(Encode(<<"y">>)), last_updated |-> 3]}

RECURSIVE SeqsUpTo(_, _)
SeqsUpTo(S, n) ==
    IF n = 0 THEN {<<>>}
    ELSE LET shorter == SeqsUpTo(S, n - 1)
         IN shorter \cup {Append(q, e) : q \in shorter, e \in S}

TopicLists == SeqsUpTo(Buckets, MaxTopics)

\* a store error (StoreError, timeout) may hit any query; a write also fails
\* once the table holds MaxStmRows rows
WriteFails(rows, fails) == fails \/ Cardinality(rows) >= MaxStmRows

FinalIds(chunks) == [i \in 1..Len(chunks) |-> chunks[i]["id"]]

-----------------------------------------------------------------------------
(* Offline graph *)

\* writes applied in the order the nodes finished in
NodeOrder_completion(completed) == completed

\* the order the writes of one superstep are applied in: the order of the
\* nodes, whatever the order they finished in
NodeOrder(completed) ==
    SelectSeq(<<"healthcare", "long-term", "short-term">>,
              LAMBDA b : \E i \in 1..Len(completed) : completed[i] = b)

\* candidates without a reducer: the write of the node that finished last
\* replaces the others
MergeCandidates_last_write(results, completed) ==
    IF completed = <<>> THEN <<>> ELSE results[completed[Len(completed)]]

\* candidates: Annotated[List, operator.add] over the superstep's writes
MergeCandidates(results, completed) ==
    LET order == NodeOrder(completed)
    IN Concat([i \in 1..Len(order) |-> results[order[i]]])

\* a qa_router that sends every request down the statement path
qa_router_always_statement(qa_type) == "statement"

\* qa_router
qa_router(qa_type) == IF qa_type = "question" THEN "question" ELSE "statement"

\* a topics_router that falls back to every bucket when no topic is selected
topics_router_default_all(topics) ==
    LET firsts == SelectSeq([i \in 1..Len(topics) |-> i],
                            LAMBDA i : /\ topics[i] \in Buckets
                                       /\ \A j \in 1..(i - 1) : topics[j] # topics[i])
    IN IF firsts = <<>> THEN <<"healthcare", "long-term", "short-term">>
       ELSE [k \in 1..Len(firsts) |-> topics[firsts[k]]]

\* topics_router: the selected topics, each once, in the order of topics
RECURSIVE topics_router(_)
topics_router(topics) ==
    IF topics = <<>> THEN <<>>
    ELSE LET before == topics_router(SubSeq(topics, 1, Len(topics) - 1))
             t == topics[Len(topics)]
         IN IF t \in Buckets /\ ~\E i \in 1..Len(before) : before[i] = t
            THEN Append(before, t) ELSE before

\* retrieve_insert_statement
retrieve_insert_statement == {"insert", "retrieve"}

NoRun == [valid |-> FALSE]

OffIdle ==
    [pc |-> "idle", input_text |-> <<>>, qa_type |-> "question", topics |-> <<>>,
     query_embedding |-> 0, retrieval |-> "none", pending |-> {},
     results |-> [b \in Buckets |-> <<>>], completed |-> <<>>,
     candidates |-> <<>>, final_chunks |-> <<>>,
     insertion |-> "none", inserted |-> FALSE, insert_result |-> "none",
     executed |-> [b \in Buckets \cup {"rerank", "insert"} |-> 0],
     store_error |-> FALSE, failed |-> {}, error |-> "none", rows0 |-> {},
     last |-> NoRun]

\* what a finished run without store error and without a write leaves for
\* the comparison with the next run of the same request: the store, the
\* search that finished first, the ids returned
Summary(o, rows) ==
    IF o.pc = "done" /\ ~o.store_error /\ o.rows0 = rows
    THEN [valid |-> TRUE, rows |-> rows,
          first |-> IF o.completed = <<>> THEN "none" ELSE Head(o.completed),
          final |-> FinalIds(o.final_chunks)]
    ELSE NoRun

\* OfflineGraph.invoke: the initial state of a run.  A client sends a request
\* and, once it is answered, may send the same request again.
OfflineInvoke(text, qa, topics) ==
    /\ \/ off.pc = "idle"
       \/ /\ off.pc \in {"done", "failed"}
          /\ off.input_text = text /\ off.qa_type = qa /\ off.topics = topics
    /\ off' = [OffIdle EXCEPT
                  !.pc = "embedding_node", !.input_text = text,
                  !.qa_type = qa, !.topics = topics, !.rows0 = stm,
                  !.last = Summary(off, stm)]
    /\ UNCHANGED <<stm, ltm, hcm, session, inv, rr, probe, req>>

\* embedding_node, then the conditional edge qa_router
EmbeddingNode ==
    /\ off.pc = "embedding_node"
    /\ LET e == embed(off.input_text)
       IN IF ~e.ok
          THEN off' = [off EXCEPT !.pc = "failed", !.error = e.error]
          ELSE IF qa_router(off.qa_type) = "question"
          THEN off' = [off EXCEPT !.pc = "subgraphs", !.query_embedding = e.value,
                                  !.retrieval = "topics_router"]
          ELSE off' = [off EXCEPT !.pc = "retrieve_insert_statement",
                                  !.query_embedding = e.value]
    /\ UNCHANGED <<stm, ltm, hcm, session, inv, rr, probe, req>>

\* retrieve_insert_statement, then the fan-out to both subgraphs
RetrieveInsertStatement ==
    /\ off.pc = "retrieve_insert_statement"
    /\ off' = [off EXCEPT
                  !.pc = "subgraphs",
                  !.retrieval = IF "retrieve" \in retrieve_insert_statement
                                THEN "topics_router" ELSE "end",
                  !.insertion = IF "insert" \in retrieve_insert_statement
                                THEN "insert" ELSE "end"]
    /\ UNCHANGED <<stm, ltm, hcm, session, inv, rr, probe, req>>

\* topics_router and its conditional edges; with nothing selected the
\* subgraph ends and rerank is never triggered
TopicsRouter ==
    /\ off.pc = "subgraphs" /\ off.retrieval = "topics_router"
    /\ LET selected == topics_router(off.topics)
       IN off' = [off EXCEPT
                    !.pending = {selected[i] : i \in 1..Len(selected)},
                    !.retrieval = IF selected = <<>> THEN "end" ELSE "retrieve"]
    /\ UNCHANGED <<stm, ltm, hcm, session, inv, rr, probe, req>>

Search(bucket, query, embedding, fails) ==
    CASE bucket = "healthcare" ->
             retrieve_hybrid_hcm(hcm, ELDERLY_ID, query, embedding, fails)
      [] bucket = "long-term" ->
             retrieve_hybrid_ltm(ltm, ELDERLY_ID, query, embedding, fails)
      [] bucket = "short-term" ->
             retrieve_hybrid_stm(stm, ELDERLY_ID, query, embedding, fails)

\* a retrieval node whose search lets the store error through
RetrievalNode_raises(bucket, fails) ==
    /\ off.pc = "subgraphs" /\ off.retrieval = "retrieve"
    /\ bucket \in off.pending
    /\ off' = IF fails
              THEN [off EXCEPT !.pc = "failed", !.error = "StoreError",
                               !.store_error = TRUE,
                               !.failed = @ \cup {bucket},
                               !.executed[bucket] = @ + 1]
              ELSE [off EXCEPT
                      !.pending = @ \ {bucket},
                      !.results[bucket] =
                          Search(bucket, off.input_text, off.query_embedding, FALSE),
                      !.completed = Append(@, bucket),
                      !.executed[bucket] = @ + 1,
                      !.retrieval = IF off.pending = {bucket} THEN "rerank" ELSE @]
    /\ UNCHANGED <<stm, ltm, hcm, session, inv, rr, probe, req>>

\* retrieval_node_health / _longterm / _shortterm: the selected nodes of the
\* superstep run in parallel and finish in any order
RetrievalNode(bucket, fails) ==
    /\ off.pc = "subgraphs" /\ off.retrieval = "retrieve"
    /\ bucket \in off.pending
    /\ off' = [off EXCEPT
                  !.pending = @ \ {bucket},
                  !.results[bucket] =
                      Search(bucket, off.input_text, off.query_embedding, fails),
                  !.completed = Append(@, bucket),
                  !.store_error = @ \/ fails,
                  !.failed = IF fails THEN @ \cup {bucket} ELSE @,
                  !.executed[bucket] = @ + 1,
                  !.retrieval = IF off.pending = {bucket} THEN "rerank" ELSE @]
    /\ UNCHANGED <<stm, ltm, hcm, session, inv, rr, probe, req>>

\* reranker_node on the merged candidates
RerankerNode ==
    /\ off.pc = "subgraphs" /\ off.retrieval = "rerank"
    /\ LET merged == MergeCandidates(off.results, off.completed)
           r == rerank_with_mmr_and_recency(off.input_text, merged)
       IN IF r.status = "ok"
          THEN off' = [off EXCEPT !.candidates = r.candidates,
                                  !.final_chunks = r.result,
                                  !.executed["rerank"] = @ + 1,
                                  !.retrieval = "end"]
          ELSE off' = [off EXCEPT !.candidates = r.candidates,
                                  !.executed["rerank"] = @ + 1,
                                  !.pc = "failed", !.error = r.status]
    /\ UNCHANGED <<stm, ltm, hcm, session, inv, rr, probe, req>>

\* an insertion node that files a statement under long_term_memory
InsertionNode_long_term(fails) ==
    /\ off.pc = "subgraphs" /\ off.insertion = "insert"
    /\ ltm' = IF fails \/ IsBlank(off.input_text) THEN ltm
              ELSE ltm \cup {[id |-> 101 + Cardinality(ltm),
                               elderly_id |-> ELDERLY_ID, category |-> "personal",
                               key |-> Strip(off.input_text),
                               value |-> Strip(off.input_text),
                               embedding |-> EmbStr(off.query_embedding),
                               last_updated |-> 0]}
    /\ off' = [off EXCEPT !.insertion = "end", !.inserted = ~fails,
                          !.insert_result = IF fails THEN "error" ELSE "success",
                          !.executed["insert"] = @ + 1]
    /\ UNCHANGED <<stm, hcm, session, inv, rr, probe, req>>

\* insertion_node: result.get("success") on what insert_short_term returned
InsertionNode(fails) ==
    /\ off.pc = "subgraphs" /\ off.insertion = "insert"
    /\ LET r == insert_short_term(stm, off.input_text, ELDERLY_ID,
                                  off.query_embedding, WriteFails(stm, fails))
       IN /\ stm' = r.rows
          /\ IF r.raised
             THEN off' = [off EXCEPT !.pc = "failed", !.error = "ValueError",
                                     !.executed["insert"] = @ + 1]
             ELSE IF ~r.returned
             THEN off' = [off EXCEPT !.pc = "failed", !.error = "AttributeError",
                                     !.insert_result = "None",
                                     !.executed["insert"] = @ + 1]
             ELSE off' = [off EXCEPT !.insertion = "end",
                                     !.inserted = r.success,
                                     !.insert_result =
                                         IF r.success THEN "success" ELSE "error",
                                     !.executed["insert"] = @ + 1]
    /\ UNCHANGED <<ltm, hcm, session, inv, rr, probe, req>>

\* both subgraphs at END: OfflineGraph.invoke pops the embedding of every
\* final chunk and returns the state
OfflineReturn ==
    /\ off.pc = "subgraphs"
    /\ off.retrieval = "end" /\ off.insertion \in {"none", "end"}
    /\ off' = [off EXCEPT
                  !.pc = "done",
                  !.final_chunks =
                      [i \in 1..Len(@) |-> Pop(@[i], "embedding")]]
    /\ UNCHANGED <<stm, ltm, hcm, session, inv, rr, probe, req>>

InitStore == stm = STM0 /\ ltm = LTM0 /\ hcm = HCM0

InitOffline ==
    /\ InitStore
    /\ off = OffIdle
    /\ session = [current_embedding |-> 0]
    /\ inv = [id \in {} |-> 0]
    /\ rr = <<>>
    /\ probe = <<>>
    /\ req = <<>>

NextOffline ==
    \/ \E text \in Utterances, qa \in QaTypes, topics \in TopicLists :
          OfflineInvoke(text, qa, topics)
    \/ EmbeddingNode
    \/ RetrieveInsertStatement
    \/ TopicsRouter
    \/ \E bucket \in Buckets, fails \in BOOLEAN : RetrievalNode(bucket, fails)
    \/ RerankerNode
    \/ \E fails \in BOOLEAN : InsertionNode(fails)
    \/ OfflineReturn

SpecOffline == InitOffline /\ [][NextOffline]_vars

-----------------------------------------------------------------------------
(* Online graph behind the HTTP facade *)

MaxCalls == 2

MaxConcurrentCalls == 1

\* the requests the facade serves; each runs invoke_flow in its own worker
\* thread, all on the one SessionContext
Clients == {"A", "B"}

FirstClient == {"A"}

Tools ==
    {"retrieve_healthcare", "retrieve_long_term", "retrieve_short_term",
     "insert_statement"}

\* the tool-call plans the planner may answer with
Plans(n) == SeqsUpTo(Tools, n)

BucketOf(tool) ==
    CASE tool = "retrieve_healthcare" -> "healthcare"
      [] tool = "retrieve_long_term" -> "long-term"
      [] tool = "retrieve_short_term" -> "short-term"

NoCall == [done |-> FALSE]

OnIdle ==
    [pc |-> "idle", text |-> <<>>, messages |-> <<>>, plan |-> <<>>,
     calls |-> <<>>, query_embedding |-> 0, candidates |-> <<>>,
     final_chunks |-> <<>>, inserted |-> FALSE,
     executed |-> [n \in {"tools", "route_after_tools", "rerank"} |-> 0],
     rows0 |-> {}, error |-> "none"]

\* a wrapped_invoke that starts the graph on the state the previous
\* invocation left (no reset of inserted, candidates and final_chunks)
WrappedInvoke_resumes(id, text, again) ==
    /\ inv[id].pc \in (IF again THEN {"idle", "done", "failed"} ELSE {"idle"})
    /\ LET e == embed(text)
       IN IF ~e.ok
          THEN /\ inv' = [inv EXCEPT ![id] =
                             [OnIdle EXCEPT !.pc = "failed", !.text = text,
                                            !.error = e.error]]
               /\ UNCHANGED session
          ELSE /\ session' = [session EXCEPT !.current_embedding = e.value]
               /\ inv' = [inv EXCEPT ![id] =
                             [OnIdle EXCEPT !.pc = "embedding", !.text = text,
                                            !.rows0 = stm,
                                            !.inserted = inv[id].inserted,
                                            !.candidates = inv[id].candidates,
                                            !.final_chunks = inv[id].final_chunks,
                                            !.messages = <<"system", "human">>]]
    /\ UNCHANGED <<stm, ltm, hcm, off, rr, probe, req>>

\* wrapped_invoke, entered from OnlineGraph.invoke: the embedding of the
\* utterance goes to the shared session, then the graph starts.  again: the
\* client sends a further request once it has its answer.
WrappedInvoke(id, text, again) ==
    /\ inv[id].pc \in (IF again THEN {"idle", "done", "failed"} ELSE {"idle"})
    /\ LET e == embed(text)
       IN IF ~e.ok
          THEN /\ inv' = [inv EXCEPT ![id] =
                             [OnIdle EXCEPT !.pc = "failed", !.text = text,
                                            !.error = e.error]]
               /\ UNCHANGED session
          ELSE /\ session' = [session EXCEPT !.current_embedding = e.value]
               /\ inv' = [inv EXCEPT ![id] =
                             [OnIdle EXCEPT !.pc = "embedding", !.text = text,
                                            !.rows0 = stm,
                                            !.messages = <<"system", "human">>]]
    /\ UNCHANGED <<stm, ltm, hcm, off, rr, probe, req>>

\* embedding_node of the online graph
OnlineEmbeddingNode(id) ==
    /\ inv[id].pc = "embedding"
    /\ inv' = [inv EXCEPT ![id].pc = "agent",
                          ![id].query_embedding = session.current_embedding]
    /\ UNCHANGED <<stm, ltm, hcm, session, off, rr, probe, req>>

\* agent_node: the planner's answer carries the tool calls of plan
AgentNode(id, plan) ==
    /\ inv[id].pc = "agent"
    /\ inv' = [inv EXCEPT ![id].pc = "tools",
                          ![id].plan = plan,
                          ![id].calls = [k \in 1..Len(plan) |-> NoCall],
                          ![id].messages = Append(@, "ai")]
    /\ UNCHANGED <<stm, ltm, hcm, session, off, rr, probe, req>>

\* retrieve_healthcare / retrieve_long_term / retrieve_short_term
RetrieveTool(tool, query, fails) ==
    LET embedding == session.current_embedding
    IN [done |-> TRUE, embedding |-> embedding,
        candidates |-> Search(BucketOf(tool), query, embedding, fails),
        inserted |-> FALSE, persisted |-> FALSE, rows |-> stm]

\* insert_statement
insert_statement(content, fails) ==
    LET embedding == session.current_embedding
        r == insert_short_term(stm, content, ELDERLY_ID, embedding,
                               WriteFails(stm, fails))
    IN [done |-> TRUE, embedding |-> embedding, candidates |-> <<>>,
        inserted |-> TRUE, persisted |-> r.rows # stm, rows |-> r.rows]

\* one tool call of the plan; the ToolNode runs the calls of a plan in
\* parallel, so they finish in any order
ToolCall(id, k, fails) ==
    /\ inv[id].pc = "tools"
    /\ k \in 1..Len(inv[id].plan) /\ ~inv[id].calls[k].done
    /\ LET tool == inv[id].plan[k]
           out == IF tool = "insert_statement"
                  THEN insert_statement(inv[id].text, fails)
                  ELSE RetrieveTool(tool, inv[id].text, fails)
       IN /\ stm' = out.rows
          /\ inv' = [inv EXCEPT ![id].calls[k] = Pop(out, "rows")]
    /\ UNCHANGED <<ltm, hcm, session, off, rr, probe, req>>

\* the tools node returns: the updates of the calls are applied in the order
\* of the plan (candidates and messages by operator.add, inserted by or)
ToolsNode(id) ==
    /\ inv[id].pc = "tools"
    /\ \A k \in 1..Len(inv[id].plan) : inv[id].calls[k].done
    /\ LET c == inv[id].calls
       IN inv' = [inv EXCEPT
                     ![id].pc = "route_after_tools",
                     ![id].candidates =
                         @ \o Concat([k \in 1..Len(c) |-> c[k].candidates]),
                     ![id].inserted = @ \/ \E k \in 1..Len(c) : c[k].inserted,
                     ![id].messages = @ \o inv[id].plan,
                     ![id].executed["tools"] = @ + 1]
    /\ UNCHANGED <<stm, ltm, hcm, session, off, rr, probe, req>>

\* a route_after_tools that leaves the transcript as it is
route_after_tools_silent(id) ==
    /\ inv[id].pc = "route_after_tools"
    /\ inv' = [inv EXCEPT ![id].pc = "rerank",
                          ![id].executed["route_after_tools"] = @ + 1]
    /\ UNCHANGED <<stm, ltm, hcm, session, off, rr, probe, req>>

\* route_after_tools; the edge route_after_tools -> rerank is unconditional
route_after_tools(id) ==
    /\ inv[id].pc = "route_after_tools"
    /\ LET has_retrieval == inv[id].candidates # <<>>
       IN inv' = [inv EXCEPT
                     ![id].pc = "rerank",
                     ![id].messages =
                         IF has_retrieval THEN @ ELSE Append(@, "router"),
                     ![id].executed["route_after_tools"] = @ + 1]
    /\ UNCHANGED <<stm, ltm, hcm, session, off, rr, probe, req>>

\* reranker_node of the online graph
OnlineRerankerNode(id) ==
    /\ inv[id].pc = "rerank"
    /\ LET r == rerank_with_mmr_and_recency(inv[id].text, inv[id].candidates)
       IN IF r.status = "ok"
          THEN inv' = [inv EXCEPT ![id].pc = "return",
                                  ![id].candidates = r.candidates,
                                  ![id].final_chunks = @ \o r.result,
                                  ![id].executed["rerank"] = @ + 1]
          ELSE inv' = [inv EXCEPT ![id].pc = "failed",
                                  ![id].candidates = r.candidates,
                                  ![id].error = r.status,
                                  ![id].executed["rerank"] = @ + 1]
    /\ UNCHANGED <<stm, ltm, hcm, session, off, rr, probe, req>>

\* OnlineGraph.invoke after the graph: pops the embedding of every final chunk
OnlineReturn(id) ==
    /\ inv[id].pc = "return"
    /\ inv' = [inv EXCEPT
                  ![id].pc = "done",
                  ![id].final_chunks =
                      [i \in 1..Len(@) |-> Pop(@[i], "embedding")]]
    /\ UNCHANGED <<stm, ltm, hcm, session, off, rr, probe, req>>

\* invoke_flow's response body for a finished online request
Response(id) ==
    [user_query |-> inv[id].text, final_chunks |-> inv[id].final_chunks,
     inserted |-> inv[id].inserted]

InitOnline ==
    /\ InitStore
    /\ off = OffIdle
    /\ session = [current_embedding |-> 0]
    /\ inv = [id \in Clients |-> OnIdle]
    /\ rr = <<>>
    /\ probe = <<>>
    /\ req = <<>>

\* the steps of the requests ids
OnlineStep(ids, maxCalls, again) ==
    \E id \in ids :
        \/ \E text \in Utterances : WrappedInvoke(id, text, again)
        \/ OnlineEmbeddingNode(id)
        \/ \E plan \in Plans(maxCalls) : AgentNode(id, plan)
        \/ \E k \in 1..maxCalls, fails \in BOOLEAN : ToolCall(id, k, fails)
        \/ ToolsNode(id)
        \/ route_after_tools(id)
        \/ OnlineRerankerNode(id)
        \/ OnlineReturn(id)

\* one request at a time
NextOnline == OnlineStep(FirstClient, MaxCalls, TRUE)

SpecOnline == InitOnline /\ [][NextOnline]_vars

\* the facade under concurrent requests
Next == OnlineStep(Clients, MaxConcurrentCalls, FALSE)

Spec == InitOnline /\ [][Next]_vars

-----------------------------------------------------------------------------
(* The reranker applied twice to one candidate list *)

MaxCandidates == 2

Queries == {<<"x">>, <<"y">>}

\* the records the bucket searches return for a query on the initial store
CandidatePool(query) ==
    LET found == retrieve_hybrid_hcm(HCM0, ELDERLY_ID, query, Encode(query), FALSE)
                 \o retrieve_hybrid_ltm(LTM0, ELDERLY_ID, query, Encode(query), FALSE)
                 \o retrieve_hybrid_stm(STM0, ELDERLY_ID, query, Encode(query), FALSE)
    IN {found[i] : i \in 1..Len(found)}

NoOutcome == [status |-> "none", result |-> <<>>]

\* first call of rerank_with_mmr_and_recency on the list
RerankFirst ==
    /\ rr.pc = "fresh"
    /\ LET r == rerank_with_mmr_and_recency(rr.query, rr.candidates)
       IN rr' = [rr EXCEPT !.pc = "once", !.candidates = r.candidates,
                           !.first = [status |-> r.status, result |-> r.result]]
    /\ UNCHANGED <<stm, ltm, hcm, session, inv, off, probe, req>>

\* second call on the same list object
RerankSecond ==
    /\ rr.pc = "once"
    /\ LET r == rerank_with_mmr_and_recency(rr.query, rr.candidates)
       IN rr' = [rr EXCEPT !.pc = "twice", !.candidates = r.candidates,
                           !.second = [status |-> r.status, result |-> r.result]]
    /\ UNCHANGED <<stm, ltm, hcm, session, inv, off, probe, req>>

InitRerank ==
    /\ InitStore
    /\ off = OffIdle
    /\ session = [current_embedding |-> 0]
    /\ inv = [id \in {} |-> 0]
    /\ probe = <<>>
    /\ req = <<>>
    /\ \E query \in Queries :
          \E candidates \in SeqsUpTo(CandidatePool(query), MaxCandidates) :
              rr = [pc |-> "fresh", query |-> query, candidates |-> candidates,
                    first |-> NoOutcome, second |-> NoOutcome]

NextRerank == RerankFirst \/ RerankSecond

SpecRerank == InitRerank /\ [][NextRerank]_vars

-----------------------------------------------------------------------------
(* Both graphs over one store: a deployment's requests all take the offline *)
(* graph or all take the online graph                                       *)

InitCore ==
    /\ InitStore
    /\ session = [current_embedding |-> 0]
    /\ rr = <<>>
    /\ probe = <<>>
    /\ req = <<>>
    /\ \/ /\ off = OffIdle
          /\ inv = [id \in Clients |-> [OnIdle EXCEPT !.pc = "unused"]]
       \/ /\ off = [OffIdle EXCEPT !.pc = "unused"]
          /\ inv = [id \in Clients |-> OnIdle]

\* the offline runs, and the online runs of one client with plans of up to
\* MaxConcurrentCalls tool calls
NextCore == NextOffline \/ OnlineStep(FirstClient, MaxConcurrentCalls, TRUE)

SpecCore == InitCore /\ [][NextCore]_vars

-----------------------------------------------------------------------------
(* Direct calls of the bucket searches and of the insertion writer *)

MaxInserts == 2

\* a short_term_memory row whose embedding is that of another text than its
\* content: near the query in meaning with no word in common, or the reverse
StmRow(id, elderly_id, content, embedded) ==
    [id |-> id, elderly_id |-> elderly_id, content |-> content,
     embedding |-> EmbStr(Encode(embedded)), created_at |-> 0]

\* a table where, for the elderly and the query x, the dense path and the
\* lexical path each return top_k_retrieval rows and share none
StmWide ==
    {StmRow(id, ELDERLY_ID, <<"z">>, <<"y">>) : id \in 1..2}
    \cup {StmRow(id, ELDERLY_ID, <<"z">>, <<"x">>) : id \in 3..5}
    \cup {StmRow(id, ELDERLY_ID, <<"y">>, <<"z">>) : id \in 6..7}
    \cup {StmRow(id, ELDERLY_ID, <<"x">>, <<"z">>) : id \in 8..10}
    \cup {StmRow(11, OtherElderly, <<"x">>, <<"x">>)}

StmSeeds == {STM0, StmWide}

LtmOther ==
    {[id |-> 103, elderly_id |-> OtherElderly, category |-> "personal",
      key |-> <<"x">>, value |-> <<"x">>,
      embedding |-> EmbStr(Encode(<<"x">>)), last_updated |-> 0]}

HcmOther ==
    {[id |-> 203, elderly_id |-> OtherElderly, record_type |-> "medication",
      description |-> <<"x">>, diagnosis_date |-> 15,
      embedding |-> EmbStr(Encode(<<"x">>)), last_updated |-> 0]}

ElderlyIds == {ELDERLY_ID, OtherElderly, NoElderly}

\* the query strings of a direct call: plain, with blanks around it, empty
SearchQueries == {<<"x">>, <<" ", "y", " ">>, <<>>}

ProbeIdle == [pc |-> "idle", inserts |-> 0]

Table(bucket) ==
    CASE bucket = "healthcare" -> hcm
      [] bucket = "long-term" -> ltm
      [] bucket = "short-term" -> stm

Bm25Of(bucket, rows, query) ==
    CASE bucket = "healthcare" -> Bm25Hcm(rows, query)
      [] bucket = "long-term" -> Bm25Ltm(rows, query)
      [] bucket = "short-term" -> Bm25Stm(rows, query)

\* emb = embedder.embed(query), the first statement of the try block
QueryEmbedding(query) == IF embed(query).ok THEN embed(query).value ELSE 0

\* retrieve_hybrid_stm / _ltm / _hcm called directly, on a store that answers
retrieve_hybrid(bucket, rows, elderly_id, query) ==
    CASE bucket = "healthcare" ->
             retrieve_hybrid_hcm(rows, elderly_id, query, QueryEmbedding(query), FALSE)
      [] bucket = "long-term" ->
             retrieve_hybrid_ltm(rows, elderly_id, query, QueryEmbedding(query), FALSE)
      [] bucket = "short-term" ->
             retrieve_hybrid_stm(rows, elderly_id, query, QueryEmbedding(query), FALSE)

\* The whole body of a bucket search is inside try, and except Exception
\* returns []: no call raises.  dense and lexical are rows_emb and rows_bm25,
\* empty when embedder.embed raised before the queries.
BucketSearch(bucket, elderly_id, query) ==
    /\ probe.pc \in {"idle", "inserted", "searched"}
    /\ LET rows == Table(bucket)
           reached == ~IsBlank(query)
       IN probe' =
            [pc |-> "searched", inserts |-> probe.inserts, bucket |-> bucket,
             elderly_id |-> elderly_id, query |-> query,
             raised |-> FALSE,
             dense |-> IF reached
                       THEN DensePath(rows, elderly_id, QueryEmbedding(query))
                       ELSE <<>>,
             lexical |-> IF reached
                         THEN LexicalPath(rows, elderly_id, Bm25Of(bucket, rows, query))
                         ELSE <<>>,
             result |-> retrieve_hybrid(bucket, rows, elderly_id, query)]
    /\ UNCHANGED <<stm, ltm, hcm, session, inv, off, rr, req>>

\* insert_short_term called directly with the embedding of the content
InsertShortTerm(content, elderly_id, fails) ==
    /\ probe.pc \in {"idle", "inserted", "searched"}
    /\ probe.inserts < MaxInserts
    /\ LET r == insert_short_term(stm, content, elderly_id,
                                  QueryEmbedding(content), fails)
       IN /\ stm' = r.rows
          /\ probe' = [pc |-> "inserted", inserts |-> probe.inserts + 1,
                       content |-> content, elderly_id |-> elderly_id,
                       raised |-> r.raised, persisted |-> r.rows # stm,
                       error |-> r.error, embedded |-> r.embedded]
    /\ UNCHANGED <<ltm, hcm, session, inv, off, rr, req>>

InitSearch ==
    /\ stm \in StmSeeds
    /\ ltm = LTM0 \cup LtmOther
    /\ hcm = HCM0 \cup HcmOther
    /\ off = OffIdle
    /\ session = [current_embedding |-> 0]
    /\ inv = [id \in {} |-> 0]
    /\ rr = <<>>
    /\ probe = ProbeIdle
    /\ req = <<>>

NextSearch ==
    \/ \E bucket \in Buckets, elderly_id \in ElderlyIds,
          query \in SearchQueries :
          BucketSearch(bucket, elderly_id, query)
    \/ \E content \in Utterances, elderly_id \in ElderlyIds, fails \in BOOLEAN :
          InsertShortTerm(content, elderly_id, fails)

SpecSearch == InitSearch /\ [][NextSearch]_vars

-----------------------------------------------------------------------------
(* Direct calls of the recency scorer *)

MaxContents == 2

\* ages in days of the records scored: later than now, fresh, around the
\* half life, at the TTL and past it
RecencyAges == {-6, -1, 0, 1, 6, 13, 14, 15}

\* the dicts of a content_list: a timestamp under created_at, under
\* last_updated with a created_at behind it, or no timestamp at all
RecencyPool ==
    {[id |-> 1, created_at |-> a] : a \in RecencyAges}
    \cup {[id |-> 1, created_at |-> 15, last_updated |-> a] : a \in {-6, 14}}
    \cup {[id |-> 1]}

ComputeRecency ==
    /\ probe.pc = "fresh"
    /\ probe' = [probe EXCEPT !.pc = "scored",
                              !.out = compute_recency_score(probe.contents)]
    /\ UNCHANGED <<stm, ltm, hcm, session, inv, off, rr, req>>

InitRecency ==
    /\ InitStore
    /\ off = OffIdle
    /\ session = [current_embedding |-> 0]
    /\ inv = [id \in {} |-> 0]
    /\ rr = <<>>
    /\ req = <<>>
    /\ \E contents \in SeqsUpTo(RecencyPool, MaxContents) :
          probe = [pc |-> "fresh", contents |-> contents, out |-> <<>>]

NextRecency == ComputeRecency

SpecRecency == InitRecency /\ [][NextRecency]_vars

-----------------------------------------------------------------------------
(* HTTP facade: POST /invoke, the Preprocessor, the Router graph, dispatch *)

\* FlowRequest.flow_type: Literal["offline", "online"]
FlowTypes == {"offline", "online"}

\* the flow_type values a client can put into the request body
SentFlowTypes == FlowTypes \cup {"batch"}

\* the labels the one-vs-all topic models can predict, in the order of
\* models_ova
PredictedLabels ==
    {SelectSeq(<<"healthcare", "long-term", "short-term">>, LAMBDA b : b \in S) :
        S \in SUBSET Buckets}

ReqIdle ==
    [pc |-> "idle", body |-> [text |-> <<>>, flow_type |-> "none"],
     status |-> 0, invoked |-> {}, input |-> <<>>, state |-> <<>>,
     pending |-> {}, writes |-> <<>>, finished |-> <<>>, ran |-> {},
     predicted |-> <<>>, rows0 |-> {}]

\* a router START edge that sends every flow to the classifiers
choose_flow_always_classifies(flow_type) ==
    IF flow_type \in {"online", "offline"}
    THEN [ok |-> TRUE, targets |-> {"QAClassifier", "TopicClassifier"}]
    ELSE [ok |-> FALSE, targets |-> {}]

\* choose_flow: "END" (no node), both classifiers, or ValueError
choose_flow(flow_type) ==
    IF flow_type = "online" THEN [ok |-> TRUE, targets |-> {}]
    ELSE IF flow_type = "offline"
    THEN [ok |-> TRUE, targets |-> {"QAClassifier", "TopicClassifier"}]
    ELSE [ok |-> FALSE, targets |-> {}]

\* a topic node that hands on what the classifier predicted
TopicNodeOutput_no_default(labels) == [topic |-> labels]

\* topic_node: result.get("topic") or ["short-term"]
TopicNodeOutput(labels) ==
    [topic |-> IF labels = <<>> THEN <<"short-term">> ELSE labels]

\* the writes of the superstep's nodes applied to the graph state; the two
\* classifier nodes write different keys
ApplyWrites(state, writes) ==
    [k \in (DOMAIN state) \cup UNION {DOMAIN writes[n] : n \in DOMAIN writes} |->
        IF \E n \in DOMAIN writes : k \in DOMAIN writes[n]
        THEN LET n == CHOOSE n \in DOMAIN writes : k \in DOMAIN writes[n]
             IN writes[n][k]
        ELSE state[k]]

\* dict.get(key, default)
Get(d, k, default) == IF Has(d, k) THEN d[k] ELSE default

\* the request arrives: the body is validated against FlowRequest before the
\* endpoint function is called; a body that does not validate is answered
\* with 422 Unprocessable Entity
PostInvoke(text, flow_type) ==
    /\ req.pc \in {"idle", "answered"}
    /\ req' = IF flow_type \in FlowTypes
              THEN [ReqIdle EXCEPT !.pc = "invoke_flow", !.rows0 = stm,
                                   !.body = [text |-> text, flow_type |-> flow_type]]
              ELSE [ReqIdle EXCEPT !.pc = "answered", !.rows0 = stm,
                                   !.status = 422,
                                   !.body = [text |-> text, flow_type |-> flow_type]]
    /\ UNCHANGED <<stm, ltm, hcm, session, inv, off, rr, probe>>

\* invoke_flow up to the Router: the flow_type test, then pipeline.run and
\* module1_output["sentences"][0]; parsed tells whether the Preprocessor
\* came back with a sentence list
invoke_flow(parsed) ==
    /\ req.pc = "invoke_flow"
    /\ req' = IF req.body.flow_type \notin {"offline", "online"}
              THEN [req EXCEPT !.pc = "answered", !.status = 400]
              ELSE IF ~parsed \/ IsBlank(req.body.text)
              THEN [req EXCEPT !.pc = "answered", !.status = 500,
                               !.invoked = @ \cup {"Preprocessor"}]
              ELSE LET data == [text |-> Strip(req.body.text),
                                flow_type |-> req.body.flow_type]
                   IN [req EXCEPT !.pc = "router", !.input = data, !.state = data,
                                  !.invoked = @ \cup {"Preprocessor"}]
    /\ UNCHANGED <<stm, ltm, hcm, session, inv, off, rr, probe>>

\* RouterGraph.invoke: the conditional edge from START
RouterStart ==
    /\ req.pc = "router"
    /\ LET c == choose_flow(req.state["flow_type"])
       IN req' = IF ~c.ok
                 THEN [req EXCEPT !.pc = "answered", !.status = 500,
                                  !.invoked = @ \cup {"Router"}]
                 ELSE IF c.targets = {}
                 THEN [req EXCEPT !.pc = "dispatch", !.invoked = @ \cup {"Router"}]
                 ELSE [req EXCEPT !.pc = "classify", !.pending = c.targets,
                                  !.invoked = @ \cup {"Router"}]
    /\ UNCHANGED <<stm, ltm, hcm, session, inv, off, rr, probe>>

\* a classifier node of the superstep finishes; with the last one the
\* writes are applied and Finalize is triggered
NodeFinishes(node, write) ==
    LET writes == Put(req.writes, node, write)
    IN [req EXCEPT
          !.pending = @ \ {node},
          !.finished = Append(@, node),
          !.ran = @ \cup {node},
          !.writes = IF req.pending = {node} THEN <<>> ELSE writes,
          !.state = IF req.pending = {node} THEN ApplyWrites(@, writes) ELSE @,
          !.pc = IF req.pending = {node} THEN "finalize" ELSE @]

qa_node(label) ==
    /\ req.pc = "classify" /\ "QAClassifier" \in req.pending
    /\ req' = NodeFinishes("QAClassifier", [qa |-> label])
    /\ UNCHANGED <<stm, ltm, hcm, session, inv, off, rr, probe>>

topic_node(labels) ==
    /\ req.pc = "classify" /\ "TopicClassifier" \in req.pending
    /\ req' = [NodeFinishes("TopicClassifier", TopicNodeOutput(labels))
                  EXCEPT !.predicted = labels]
    /\ UNCHANGED <<stm, ltm, hcm, session, inv, off, rr, probe>>

finalize_node ==
    /\ req.pc = "finalize"
    /\ req' = [req EXCEPT
                  !.pc = "dispatch",
                  !.ran = @ \cup {"Finalize"},
                  !.state = Put(Put(@, "qa", Get(req.state, "qa", "unknown")),
                                "topic", Get(req.state, "topic", <<>>))]
    /\ UNCHANGED <<stm, ltm, hcm, session, inv, off, rr, probe>>

\* invoke_flow after the Router: the graph of the flow runs and the response
\* is built.  Of the graph run the facade keeps its store effect and whether
\* it raised: the offline graph writes on a statement (insertion_node), the
\* online graph when the Planner calls insert_statement.
Dispatch(inserts, fails) ==
    /\ req.pc = "dispatch"
    /\ LET flow_type == req.state["flow_type"]
           text == req.state["text"]
           qa == Get(req.state, "qa", "")
           writes == IF flow_type = "offline" THEN qa = "statement" ELSE inserts
           r == insert_short_term(stm, text, ELDERLY_ID, QueryEmbedding(text),
                                  WriteFails(stm, fails))
       IN /\ stm' = IF writes THEN r.rows ELSE stm
          /\ req' = [req EXCEPT
                        !.pc = "answered",
                        !.invoked = @ \cup {IF flow_type = "offline"
                                            THEN "OfflineGraph" ELSE "OnlineGraph"},
                        !.status = IF flow_type = "offline" /\ writes
                                      /\ (r.raised \/ ~r.returned)
                                   THEN 500 ELSE 200]
    /\ UNCHANGED <<ltm, hcm, session, inv, off, rr, probe>>

InitFacade ==
    /\ InitStore
    /\ off = OffIdle
    /\ session = [current_embedding |-> 0]
    /\ inv = [id \in {} |-> 0]
    /\ rr = <<>>
    /\ probe = <<>>
    /\ req = ReqIdle

NextFacade ==
    \/ \E text \in Utterances, flow_type \in SentFlowTypes :
          PostInvoke(text, flow_type)
    \/ \E parsed \in BOOLEAN : invoke_flow(parsed)
    \/ RouterStart
    \/ \E label \in QaTypes : qa_node(label)
    \/ \E labels \in PredictedLabels : topic_node(labels)
    \/ finalize_node
    \/ \E inserts \in BOOLEAN, fails \in BOOLEAN : Dispatch(inserts, fails)

SpecFacade == InitFacade /\ [][NextFacade]_vars

-----------------------------------------------------------------------------
(* Insertion, then an offline question on the short-term bucket *)

\* a table where the elderly has more than top_k_retrieval records near the
\* query y and more than top_k_retrieval that pass the threshold for x
StmBusy ==
    {StmRow(id, ELDERLY_ID, <<"y">>, <<"y">>) : id \in 1..6}
    \cup {StmRow(7, ELDERLY_ID, <<"z">>, <<"z">>),
          StmRow(8, OtherElderly, <<"x">>, <<"x">>)}

QuerySeeds == {STM0, StmBusy}

\* insert_short_term called before the question is asked
InsertThenAsk(content, elderly_id, fails) ==
    /\ off.pc = "idle"
    /\ InsertShortTerm(content, elderly_id, fails)

InitInsertQuery ==
    /\ stm \in QuerySeeds
    /\ ltm = LTM0
    /\ hcm = HCM0
    /\ off = OffIdle
    /\ session = [current_embedding |-> 0]
    /\ inv = [id \in {} |-> 0]
    /\ rr = <<>>
    /\ probe = ProbeIdle
    /\ req = <<>>

NextInsertQuery ==
    \/ \E content \in Utterances, elderly_id \in {ELDERLY_ID, OtherElderly},
          fails \in BOOLEAN :
          InsertThenAsk(content, elderly_id, fails)
    \/ \E text \in Utterances : OfflineInvoke(text, "question", <<"short-term">>)
    \/ EmbeddingNode
    \/ TopicsRouter
    \/ \E fails \in BOOLEAN : RetrievalNode("short-term", fails)
    \/ RerankerNode
    \/ OfflineReturn

SpecInsertQuery == InitInsertQuery /\ [][NextInsertQuery]_vars

-----------------------------------------------------------------------------
(* The reranker on candidates with equal scores and with rows that have no *)
(* embedding                                                                *)

\* short_term_memory with the same statement stored twice for the elderly
\* and with a row whose embedding column is NULL
StmTied ==
    STM0 \cup {StmRow(3, ELDERLY_ID, <<"x">>, <<"x">>),
               [id |-> 4, elderly_id |-> ELDERLY_ID, content |-> <<"x">>,
                embedding |-> <<>>, created_at |-> 0]}

\* the records the bucket searches return for a query on that store
TiedPool(query) ==
    LET found == retrieve_hybrid_hcm(HCM0, ELDERLY_ID, query, Encode(query), FALSE)
                 \o retrieve_hybrid_ltm(LTM0, ELDERLY_ID, query, Encode(query), FALSE)
                 \o retrieve_hybrid_stm(StmTied, ELDERLY_ID, query, Encode(query), FALSE)
    IN {found[i] : i \in 1..Len(found)}

\* given keeps the candidate dicts as they were handed to the first call
InitRerankTied ==
    /\ InitStore
    /\ off = OffIdle
    /\ session = [current_embedding |-> 0]
    /\ inv = [id \in {} |-> 0]
    /\ probe = <<>>
    /\ req = <<>>
    /\ \E query \in Queries :
          \E candidates \in SeqsUpTo(TiedPool(query), MaxCandidates) :
              rr = [pc |-> "fresh", query |-> query, candidates |-> candidates,
                    given |-> candidates,
                    first |-> NoOutcome, second |-> NoOutcome]

SpecRerankTied == InitRerankTied /\ [][NextRerank]_vars

-----------------------------------------------------------------------------
(* Offline statement runs with a failing embedder or an unembedded row *)

\* embedding_node when session.embedder.embed raises on the text: nothing
\* in the node or around app.invoke catches it
EmbeddingNodeFails ==
    /\ off.pc = "embedding_node"
    /\ off' = [off EXCEPT !.pc = "failed", !.error = "EmbedderError"]
    /\ UNCHANGED <<stm, ltm, hcm, session, inv, rr, probe, req>>

InitStatement ==
    /\ stm \in {STM0, StmTied} /\ ltm = LTM0 /\ hcm = HCM0
    /\ off = OffIdle
    /\ session = [current_embedding |-> 0]
    /\ inv = [id \in {} |-> 0]
    /\ rr = <<>>
    /\ probe = <<>>
    /\ req = <<>>

NextStatement ==
    \/ \E text \in Utterances, topics \in TopicLists :
          OfflineInvoke(text, "statement", topics)
    \/ EmbeddingNode
    \/ EmbeddingNodeFails
    \/ RetrieveInsertStatement
    \/ TopicsRouter
    \/ \E bucket \in Buckets, fails \in BOOLEAN : RetrievalNode(bucket, fails)
    \/ RerankerNode
    \/ \E fails \in BOOLEAN : InsertionNode(fails)
    \/ OfflineReturn

SpecStatement == InitStatement /\ [][NextStatement]_vars

-----------------------------------------------------------------------------
(* Online requests with a failing planner *)

\* agent_node when llm.invoke raises: build_graph wraps it in nothing, and
\* neither wrapped_invoke nor OnlineGraph.invoke catches the exception
AgentNodeFails(id) ==
    /\ inv[id].pc = "agent"
    /\ inv' = [inv EXCEPT ![id].pc = "failed", ![id].error = "PlannerError"]
    /\ UNCHANGED <<stm, ltm, hcm, session, off, rr, probe, req>>

NextPlanner ==
    \/ OnlineStep(FirstClient, MaxConcurrentCalls, TRUE)
    \/ \E id \in FirstClient : AgentNodeFails(id)

SpecPlanner == InitOnline /\ [][NextPlanner]_vars

-----------------------------------------------------------------------------
(* Properties *)

Range(seq) == {seq[i] : i \in 1..Len(seq)}

NoDuplicateIds(chunks) ==
    \A i, j \in 1..Len(chunks) : chunks[i]["id"] = chunks[j]["id"] => i = j

InternalScoreFields ==
    {"emb_score", "bm25_score", "hybrid_score", "recency_score",
     "cross_encoder_score", "mmr_score"}

\* the planner of request id has answered
Answered(id) == Len(inv[id].messages) >= 3

\* C1: under concurrent online requests on the one SessionContext, every
\* tool call of an invocation uses the embedding of that invocation's own
\* utterance.
C1_OwnEmbedding ==
    \A id \in Clients :
        \A k \in 1..Len(inv[id].calls) :
            inv[id].calls[k].done =>
                inv[id].calls[k].embedding = embed(inv[id].text).value

\* C2: whatever candidate list the online graph hands to the reranker
\* (repeated calls of one tool included), the reranked output has at most
\* top_k_MMR entries and no two entries with the same id.
C2_RerankedOutput ==
    \A id \in Clients :
        inv[id].pc \in {"return", "done"} =>
            /\ Len(inv[id].final_chunks) <= top_k_MMR
            /\ NoDuplicateIds(inv[id].final_chunks)

\* C3: no chunk of the final_chunks the offline graph returns carries an
\* internal score field.
C3_NoInternalScores ==
    off.pc = "done" =>
        \A i \in 1..Len(off.final_chunks) :
            DOMAIN off.final_chunks[i] \cap InternalScoreFields = {}

\* C4: after the embed node a question runs only the retrieval sub-DAG: the
\* insertion node never runs, inserted stays false and no short-term row is
\* written; a statement runs both the retrieval sub-DAG and the insertion
\* node.
C4_QaRouting ==
    /\ (off.pc # "idle" /\ off.qa_type = "question") =>
          /\ off.insertion = "none" /\ off.executed["insert"] = 0
          /\ ~off.inserted /\ stm = off.rows0
    /\ (off.pc \in {"subgraphs", "done"} /\ off.qa_type = "question") =>
          off.retrieval # "none"
    /\ (off.pc \in {"subgraphs", "done"} /\ off.qa_type = "statement") =>
          off.retrieval # "none" /\ off.insertion # "none"
    /\ (off.pc = "done" /\ off.qa_type = "statement") =>
          off.retrieval = "end" /\ off.executed["insert"] = 1

C4_Witness ==
    /\ off.pc = "done" /\ off.qa_type = "question"
    /\ off.executed["rerank"] = 1 /\ off.final_chunks # <<>>

\* C5: the bucket searches that execute are exactly the buckets present in
\* topics, each exactly once however often its topic occurs, and no bucket
\* whose topic is absent is searched.
C5_ExactBuckets ==
    /\ \A b \in Buckets :
          off.executed[b] <= (IF b \in Range(off.topics) THEN 1 ELSE 0)
    /\ off.retrieval \in {"rerank", "end"} =>
          \A b \in Buckets :
              off.executed[b] = (IF b \in Range(off.topics) THEN 1 ELSE 0)

C5_Witness ==
    /\ off.pc = "done" /\ Len(off.topics) = 2 /\ off.topics[1] = off.topics[2]
    /\ off.executed[off.topics[1]] = 1
    /\ \A b \in Buckets \ {off.topics[1]} : off.executed[b] = 0

C7_Idempotent ==
    (rr.pc = "twice" /\ rr.first.status = "ok") =>
        /\ rr.second.status = "ok"
        /\ FinalIds(rr.second.result) = FinalIds(rr.first.result)

\* C8: for an offline statement whose short-term write succeeds,
\* insert_short_term reports success, the insertion node sets inserted, and
\* exactly one new row with the trimmed input text exists for the elderly.
C8_StatementInsert ==
    (off.qa_type = "statement" /\ off.executed["insert"] = 1 /\ stm # off.rows0) =>
        /\ off.insert_result = "success"
        /\ off.inserted
        /\ off.pc # "failed"
        /\ \E row \in stm \ off.rows0 :
              /\ stm \ off.rows0 = {row}
              /\ row.content = Strip(off.input_text)
              /\ row.elderly_id = ELDERLY_ID

\* C9: the inserted flag of a finished online invocation is true only if
\* one of its insert_statement calls persisted a short-term row.
C9_InsertedOnlyIfPersisted ==
    \A id \in Clients :
        (inv[id].pc = "done" /\ inv[id].inserted) =>
            \E k \in 1..Len(inv[id].calls) : inv[id].calls[k].persisted

C12_ValidationSurfaced ==
    (probe.pc = "searched"
        /\ (IsBlank(probe.query) \/ probe.elderly_id = NoElderly)) =>
            probe.raised

\* C17: after any sequence of insertions for any elderly ids, every row the
\* dense path, the lexical path or their fusion returns for an elderly id is
\* a row stored under that elderly id.
C17_OnlyOwnRecords ==
    probe.pc = "searched" =>
        \A part \in {probe.dense, probe.lexical, probe.result} :
            \A i \in 1..Len(part) :
                \E r \in Table(probe.bucket) :
                    r.id = part[i]["id"] /\ r.elderly_id = probe.elderly_id

C17_Witness ==
    /\ probe.pc = "searched" /\ probe.inserts = MaxInserts
    /\ probe.bucket = "short-term" /\ probe.elderly_id = OtherElderly
    /\ probe.result # <<>>
    /\ \E r \in stm : r.id > Cardinality(stm) - MaxInserts
                      /\ r.elderly_id = ELDERLY_ID
                      /\ Bm25Raw(probe.query, r.content) > 0
    /\ \E r \in stm : r.id > Cardinality(stm) - MaxInserts
                      /\ r.elderly_id = OtherElderly

\* C18: a bucket search returns at most top_k_retrieval candidates, no id
\* twice, in descending order of hybrid_score, also when the dense path and
\* the lexical path each return top_k_retrieval rows and share none.
C18_TopKSortedUnique ==
    probe.pc = "searched" =>
        /\ Len(probe.result) <= top_k_retrieval
        /\ NoDuplicateIds(probe.result)
        /\ \A i \in 1..Len(probe.result), j \in 1..Len(probe.result) :
              i < j => probe.result[i]["hybrid_score"] >= probe.result[j]["hybrid_score"]

C18_Witness ==
    /\ probe.pc = "searched"
    /\ Len(probe.dense) = top_k_retrieval /\ Len(probe.lexical) = top_k_retrieval
    /\ IdsOf(probe.dense) \cap IdsOf(probe.lexical) = {}
    /\ Len(probe.result) = top_k_retrieval
    /\ \E i \in 1..Len(probe.result) : probe.result[i]["id"] \in IdsOf(probe.lexical)

\* C19: for every record timestamp, also one later than the current time,
\* the recency score lies in [0, 1]; it is 0 when the record is older than
\* TTL_DAYS and greater than 0 at an age of exactly TTL_DAYS.
C19_RecencyRange ==
    probe.pc = "scored" =>
        \A i \in 1..Len(probe.out) :
            LET t == _get_content_datetime(probe.contents[i])
                score == probe.out[i]["recency_score"]
            IN /\ 0 <= score /\ score <= 10000
               /\ (t.ok /\ t.value > TTL_DAYS) => score = 0
               /\ (t.ok /\ t.value = TTL_DAYS) => score > 0

\* C13: for flow_type offline the router's output has a non-empty topic list,
\* and it is exactly [short-term] when the topic classifier predicted no
\* label, whichever of the two classifier nodes finished first.
C13_TopicDefault ==
    (req.pc \in {"dispatch", "answered"} /\ "Router" \in req.invoked
        /\ req.input["flow_type"] = "offline") =>
            /\ Has(req.state, "topic") /\ req.state["topic"] # <<>>
            /\ req.predicted = <<>> => req.state["topic"] = <<"short-term">>

C13_Witness ==
    /\ req.pc = "answered" /\ "OfflineGraph" \in req.invoked
    /\ req.predicted = <<>>
    /\ req.finished = <<"TopicClassifier", "QAClassifier">>
    /\ req.state["topic"] = <<"short-term">>

\* C14: for flow_type online the router runs neither classifier node nor the
\* finalize node, and its output state is its input state: text and
\* flow_type as given, qa and topic as absent as before.
C14_OnlinePassThrough ==
    (req.pc \in {"dispatch", "answered"} /\ "Router" \in req.invoked
        /\ req.input["flow_type"] = "online") =>
            /\ req.ran = {} /\ req.finished = <<>>
            /\ req.state = req.input
            /\ DOMAIN req.state = {"text", "flow_type"}

C14_Witness ==
    /\ req.pc = "answered" /\ "OnlineGraph" \in req.invoked
    /\ req.state["text"] = <<"y">> /\ req.status = 200

\* C15: a POST /invoke whose flow_type is neither offline nor online is
\* answered with status 400, and for it neither the Preprocessor, the Router
\* nor a graph is invoked and the store is not written.
C15_InvalidFlowType400 ==
    (req.pc = "answered" /\ req.body.flow_type \notin FlowTypes) =>
        /\ req.status = 400
        /\ req.invoked = {}
        /\ stm = req.rows0

\* the last call of insert_short_term persisted the text of the finished
\* offline question on the short-term bucket, for the elderly of the facade,
\* and the store answered the search
AskedWhatWasInserted ==
    /\ off.pc = "done" /\ off.qa_type = "question"
    /\ off.topics = <<"short-term">> /\ off.failed = {}
    /\ probe.pc = "inserted" /\ probe.persisted
    /\ probe.elderly_id = ELDERLY_ID /\ probe.content = off.input_text

C20_OnlyShortTermWritten ==
    /\ ltm = LTM0
    /\ hcm = HCM0
    /\ STM0 \subseteq stm

C20_Witness ==
    /\ off.pc \in {"done", "failed"} /\ off.qa_type = "statement"
    /\ off.executed["insert"] = 1 /\ off.executed["long-term"] = 1
    /\ stm # STM0

GivenPos(k) ==
    CHOOSE p \in 1..Len(rr.given) : rr.given[p]["id"] = rr.first.result[k]["id"]

\* the score a candidate of the list had in round k of the selection
RoundScore(p, k) ==
    LET c1 == compute_recency_score(rr.given)
        n == Len(c1)
        emb == [i \in 1..n |-> ParseEmbedding(c1[i]).value]
        rec == [i \in 1..n |-> c1[i]["recency_score"]]
        ce == NormalisedCE([i \in 1..n |-> CrossScore(rr.query, TextOf(c1[i]))])
    IN MmrScore(ce, rec, emb, p, [j \in 1..(k - 1) |-> GivenPos(j)])

\* C25: in every round of the greedy MMR selection the candidate selected
\* has the maximal score, and among the remaining candidates that share this
\* score it is the one with the lowest id, wherever they stand in the list.
C25_TieLowestId ==
    (rr.pc \in {"once", "twice"} /\ rr.first.status = "ok"
        /\ NoDuplicateIds(rr.given)) =>
        \A k \in 1..Len(rr.first.result) :
            \A q \in 1..Len(rr.given) :
                (\A j \in 1..(k - 1) : GivenPos(j) # q) =>
                    /\ RoundScore(q, k) <= RoundScore(GivenPos(k), k)
                    /\ RoundScore(q, k) = RoundScore(GivenPos(k), k) =>
                          rr.given[GivenPos(k)]["id"] <= rr.given[q]["id"]

\* C26: after rerank_with_mmr_and_recency has returned, every candidate it
\* was given, selected or not, still carries the embedding it had before.
C26_EmbeddingKept ==
    rr.pc = "once" =>
        \A i \in 1..Len(rr.given) :
            /\ Has(rr.candidates[i], "embedding")
            /\ rr.candidates[i]["embedding"] = rr.given[i]["embedding"]

\* C27: when some candidates have an embedding that cannot be parsed, the
\* rerank completes, leaves out exactly those candidates and returns chunks
\* chosen among the others.
C27_UnparseableDropped ==
    (rr.pc = "once" /\ \E i \in 1..Len(rr.given) : ~ParseEmbedding(rr.given[i]).ok) =>
        /\ rr.first.status = "ok"
        /\ \A k \in 1..Len(rr.first.result) :
              \E i \in 1..Len(rr.given) :
                  /\ rr.given[i]["id"] = rr.first.result[k]["id"]
                  /\ ParseEmbedding(rr.given[i]).ok
        /\ (\E i \in 1..Len(rr.given) : ParseEmbedding(rr.given[i]).ok) =>
              rr.first.result # <<>>

\* C22: in the offline statement flow the retrieval branch and the
\* insertion branch are independent. A failure on the retrieval side (the
\* query embedding, a bucket search, the reranker) leaves the run completing
\* with the insertion performed and reported, and a failed insertion leaves
\* the run completing with the final chunks.
EmbeddingFailed ==
    \/ off.error = "EmbedderError"
    \/ off.error = "ValueError" /\ off.retrieval = "none"

RerankerFailed == off.executed["rerank"] = 1 /\ off.retrieval = "rerank"

C22_BranchesIndependent ==
    off.qa_type = "statement" =>
        /\ (EmbeddingFailed \/ RerankerFailed \/ off.failed # {}) =>
              /\ off.pc # "failed"
              /\ off.pc = "done" => off.executed["insert"] = 1
        /\ off.insert_result = "error" => off.pc # "failed"

\* C23: when the planner call of the agent node fails, the online graph
\* ends after agent and the invocation returns a result with empty
\* final_chunks and a note in the transcript; the failure does not leave
\* invoke as an exception.
C23_PlannerFailureContained ==
    \A id \in FirstClient :
        inv[id].error = "PlannerError" =>
            /\ inv[id].pc # "failed"
            /\ inv[id].final_chunks = <<>>
            /\ inv[id].executed["tools"] = 0
            /\ inv[id].pc = "done" => Len(inv[id].messages) >= 3

\* C24: in the online graph, after the tools node the rerank node executes
\* if and only if candidates is non-empty; with empty candidates
\* route_after_tools appends one note to messages and the run ends without
\* the rerank node executing, with final_chunks empty.
C24_RerankIffCandidates ==
    \A id \in FirstClient :
        (inv[id].pc \in {"return", "done"}
            /\ inv[id].executed["route_after_tools"] = 1) =>
                /\ inv[id].executed["rerank"] = 1 <=> inv[id].candidates # <<>>
                /\ inv[id].candidates = <<>> =>
                      /\ inv[id].final_chunks = <<>>
                      /\ Cardinality({i \in 1..Len(inv[id].messages) :
                                         inv[id].messages[i] = "router"}) = 1

\* C30: across a sequence of invocations on the same OnlineGraph and
\* session nothing of a request carries over. What an invocation returns
\* comes from the tool calls it executed itself: inserted is true only when
\* insert_statement is among them, the candidates are the concatenation of
\* what its own calls found with its own query embedding, and the final
\* chunks are taken from these candidates.
C30_NoCarryOver ==
    \A id \in FirstClient :
        inv[id].pc \in {"return", "done"} =>
            LET c == inv[id].calls
            IN /\ inv[id].inserted =>
                     \E k \in 1..Len(c) : inv[id].plan[k] = "insert_statement"
               /\ \A k \in 1..Len(c) :
                     c[k].done /\ c[k].embedding = embed(inv[id].text).value
               /\ FinalIds(inv[id].candidates) =
                     FinalIds(Concat([k \in 1..Len(c) |-> c[k].candidates]))
               /\ Range(FinalIds(inv[id].final_chunks)) \subseteq
                     Range(FinalIds(inv[id].candidates))
               /\ Len(inv[id].final_chunks) <= Len(inv[id].candidates)

\* a finished invocation that retrieved without inserting, after an earlier
\* invocation on the same session wrote a statement to the store
C30_Witness ==
    \E id \in FirstClient :
        /\ inv[id].pc = "done" /\ stm # STM0 /\ inv[id].rows0 # STM0
        /\ \A k \in 1..Len(inv[id].plan) : inv[id].plan[k] # "insert_statement"
        /\ ~inv[id].inserted
        /\ inv[id].final_chunks # <<>>

ShortTermAtArrival ==
    IF "short-term" \in off.failed THEN <<>>
    ELSE retrieve_hybrid_stm(off.rows0, ELDERLY_ID, off.input_text,
                             off.query_embedding, FALSE)

ChunksAtArrival ==
    LET results == [off.results EXCEPT !["short-term"] = ShortTermAtArrival]
    IN rerank_with_mmr_and_recency(
           off.input_text, MergeCandidates(results, off.completed)).result

C29_InterleavingIndependent ==
    (off.qa_type = "statement"
        /\ "short-term" \in Range(topics_router(off.topics))
        /\ off.executed["insert"] = 1 /\ stm # off.rows0) =>
            /\ off.pc # "failed"
            /\ off.executed["short-term"] = 1 =>
                  FinalIds(off.results["short-term"]) = FinalIds(ShortTermAtArrival)
            /\ off.pc = "done" =>
                  FinalIds(off.final_chunks) = FinalIds(ChunksAtArrival)

====
